---- MODULE Spec2Model ----
(***************************************************************************)
(* A model of catalystsquad/grpc-base-go, package pkg (grpc_server.go):    *)
(*   - NewGrpcServer / initialize / maybeLoadTLSCredentials (construction) *)
(*   - getUnaryInterceptorChain / getStreamInterceptorChain and the walk   *)
(*     of one call through the composed interceptors                      *)
(*   - Run / run / servePrometheusMetrics and the package-level shutDown,  *)
(*     runError and wg they synchronise on                                 *)
(***************************************************************************)
EXTENDS Integers, Sequences, FiniteSets, TLC

\* ------------------------------------------------------------- bounds

\* length of the caller-supplied interceptor lists
MaxExtras == 2
\* calls in flight per server in the lifecycle model
MaxInflight == 1

\* ---------------------------------------------------- program constants

\* tls.VersionTLS10, the default of MinTlsVersion
VersionTLS10 == 769
\* tls.VersionTLS13
VersionTLS13 == 772

\* ------------------------------------------------------------- values

\* error values: a nil error, and errors with a status code and a message
NoErr == [code |-> "nil", msg |-> ""]
GoErr(m) == [code |-> "error", msg |-> m]
\* status.Error(codes.Internal, "unexpected error handling request")
StatusInternal == [code |-> "Internal", msg |-> "unexpected error handling request"]

\* the values a handler may panic with: a string, an error, anything else
PanicValues ==
    { [t |-> "string", v |-> "boom"],
      [t |-> "error", v |-> "db down"],
      [t |-> "other", v |-> "42"] }

NoPanic == [t |-> "none", v |-> ""]

VARIABLES
    \* construction
    config,     \* the GrpcServerConfig handed to NewGrpcServer
    files,      \* what the TLS files on disk do when loaded
    newPc,      \* "start" before NewGrpcServer, "done" after it returned
    ret,        \* what NewGrpcServer returned: the *GrpcServer and the error
    \* calls through the interceptor chain
    calls,      \* per call slot: where the call is in the chain, and its result
    \* lifecycle (package-level state and the goroutines of each instance)
    shutDown,   \* the package-level channel shutDown: "open" or "closed"
    wg,         \* the package-level WaitGroup's counter
    runPc,      \* per instance: where Run() is
    selected,   \* per instance: the case of Run()'s select that ran
    gateAtRun,  \* per instance: what shutDown was when its Run() was called
    runRet,     \* per instance: the named result err of Run()
    osSignal,   \* per instance: the buffered (1) channel signal.Notify feeds
    supPc,      \* per instance: where the goroutine run() is
    listener,   \* per instance: the result of net.Listen
    srvPc,      \* per instance: where the goroutine calling Server.Serve is
    srvVal,     \* per instance: the value that goroutine sends on runError
    server,     \* per instance: the grpc.Server's state
    metricsPc,  \* per instance: where the goroutine servePrometheusMetrics is
    inflight,   \* per instance: handlers currently running
    crashed     \* the process: "no", or the goroutine whose panic ended it

vars == << config, files, newPc, ret, calls, shutDown, wg, runPc,
           selected, runRet, gateAtRun,
           osSignal, supPc, listener, srvPc, srvVal, server, metricsPc, inflight,
           crashed >>

newVars == << config, files, newPc, ret >>
callVars == << calls >>
lifeVars == << shutDown, wg, runPc, selected, runRet, gateAtRun, osSignal, supPc, listener, srvPc,
               srvVal, server, metricsPc, inflight >>

\* the GrpcServer instances living in the process
Inst == { "A", "B" }
\* the call slots the interceptor chain serves concurrently
CallIds == { "c1", "c2" }

\* ---------------------------------------------------------------------
\* Construction: NewGrpcServer, initialize, maybeLoadTLSCredentials
\* ---------------------------------------------------------------------

RECURSIVE SeqsUpTo(_, _)
\* all sequences over S of length at most n
SeqsUpTo(S, n) == IF n = 0 THEN { << >> }
                  ELSE SeqsUpTo(S, n - 1) \cup [1 .. n -> S]

\* a path is the empty string or names a file
Paths == { "", "file.pem" }
\* uint16 values of MinTlsVersion: unset, TLS 1.0, 1.2, 1.3
TlsVersions == { 0, VersionTLS10, 771, VersionTLS13 }
\* the caller-supplied interceptors are told apart by their names
ExtraIds == { "x1", "x2" }

\* grpc_middleware.ChainUnaryServer / ChainStreamServer: the composed
\* interceptor runs its arguments in the order given, the first outermost.
\* An interceptor is the sequence of the primitive stages it runs.
ChainUnaryServer(outer, inner) == outer \o inner
ChainStreamServer(outer, inner) == outer \o inner

RECURSIVE AddUnary(_, _)
\* the loop "for _, interceptor := range s.Config.UnaryServerInterceptors"
AddUnary(chain, extras) ==
    IF extras = << >> THEN chain
    ELSE AddUnary(ChainUnaryServer(chain, << Head(extras) >>), Tail(extras))

RECURSIVE AddStream(_, _)
\* the loop "for _, interceptor := range s.Config.StreamServerInterceptors"
AddStream(chain, extras) ==
    IF extras = << >> THEN chain
    ELSE AddStream(ChainStreamServer(chain, << Head(extras) >>), Tail(extras))

\* getUnaryInterceptorChain with the recovery interceptor left out of the
\* default interceptors
getUnaryInterceptorChainNoRecovery(cfg) ==
    LET base == << "metrics" >>
        withAuth == IF cfg.AuthFunc # "nil"
                    THEN ChainUnaryServer(base, << "auth" >>)
                    ELSE base
    IN  AddUnary(withAuth, cfg.UnaryServerInterceptors)

\* getUnaryInterceptorChain with the auth interceptor added after the
\* additional interceptors
getUnaryInterceptorChainAuthLast(cfg) ==
    LET base == ChainUnaryServer(<< "metrics" >>, << "recovery" >>)
        withExtras == AddUnary(base, cfg.UnaryServerInterceptors)
    IN  IF cfg.AuthFunc # "nil"
        THEN ChainUnaryServer(withExtras, << "auth" >>)
        ELSE withExtras

getUnaryInterceptorChain(cfg) ==
    LET base == ChainUnaryServer(<< "metrics" >>, << "recovery" >>)
        withAuth == IF cfg.AuthFunc # "nil"
                    THEN ChainUnaryServer(base, << "auth" >>)
                    ELSE base
    IN  AddUnary(withAuth, cfg.UnaryServerInterceptors)

\* getStreamInterceptorChain with the auth interceptor added after the
\* additional interceptors
getStreamInterceptorChainAuthLast(cfg) ==
    LET base == ChainStreamServer(<< "metrics" >>, << "recovery" >>)
        withExtras == AddStream(base, cfg.StreamServerInterceptors)
    IN  IF cfg.AuthFunc # "nil"
        THEN ChainStreamServer(withExtras, << "auth" >>)
        ELSE withExtras

\* getStreamInterceptorChain with the auth interceptor put in front of the
\* recovery interceptor
getStreamInterceptorChainAuthOutside(cfg) ==
    LET base == IF cfg.AuthFunc # "nil"
                THEN ChainStreamServer(<< "metrics" >>, << "auth" >>)
                ELSE << "metrics" >>
        withRecovery == ChainStreamServer(base, << "recovery" >>)
    IN  AddStream(withRecovery, cfg.StreamServerInterceptors)

getStreamInterceptorChain(cfg) ==
    LET base == ChainStreamServer(<< "metrics" >>, << "recovery" >>)
        withAuth == IF cfg.AuthFunc # "nil"
                    THEN ChainStreamServer(base, << "auth" >>)
                    ELSE base
    IN  AddStream(withAuth, cfg.StreamServerInterceptors)

\* a server option: an interceptor option, the TLS credentials, or one the
\* caller passed through in Config.Opts
InterceptorOpt(kind, chain) ==
    [type |-> kind, chain |-> chain, MinVersion |-> 0, RootCAs |-> ""]
CredsOpt(minVersion, pool) ==
    [type |-> "creds", chain |-> << >>, MinVersion |-> minVersion, RootCAs |-> pool]
UserOpt == [type |-> "user", chain |-> << >>, MinVersion |-> 0, RootCAs |-> ""]

\* maybeLoadTLSCredentials with the minimum version fixed to TLS 1.3, as it
\* was before MinTlsVersion became configurable
maybeLoadTLSCredentialsTLS13(cfg, fs) ==
    IF cfg.TlsCertPath # "" /\ cfg.TlsKeyPath # "" /\ cfg.TlsCaPath # ""
    THEN IF ~fs.keyPairLoads
         THEN [cfg |-> cfg, err |-> GoErr("tls: failed to load key pair")]
         ELSE IF ~fs.caReadable
         THEN [cfg |-> cfg, err |-> GoErr("open ca: no such file")]
         ELSE LET pool == IF fs.caParses THEN "ca" ELSE "empty"
              IN  [cfg |-> [cfg EXCEPT !.Opts = Append(@, CredsOpt(VersionTLS13, pool))],
                   err |-> NoErr]
    ELSE [cfg |-> cfg, err |-> NoErr]

\* maybeLoadTLSCredentials: the updated config and the error
maybeLoadTLSCredentials(cfg, fs) ==
    IF cfg.TlsCertPath # "" /\ cfg.TlsKeyPath # "" /\ cfg.TlsCaPath # ""
    THEN LET minV == IF cfg.MinTlsVersion = 0 THEN VersionTLS10
                     ELSE cfg.MinTlsVersion
             cfg1 == [cfg EXCEPT !.MinTlsVersion = minV]
         IN  IF ~fs.keyPairLoads
             THEN [cfg |-> cfg1, err |-> GoErr("tls: failed to load key pair")]
             ELSE IF ~fs.caReadable
             THEN [cfg |-> cfg1, err |-> GoErr("open ca: no such file")]
             ELSE \* the result of p.AppendCertsFromPEM(ca) is dropped
                  LET pool == IF fs.caParses THEN "ca" ELSE "empty"
                  IN  [cfg |-> [cfg1 EXCEPT !.Opts = Append(@, CredsOpt(minV, pool))],
                       err |-> NoErr]
    ELSE [cfg |-> cfg, err |-> NoErr]

\* initialize: the GrpcServer after it, and the error
initialize(cfg, fs) ==
    LET unaryInterceptorOpt == InterceptorOpt("unary", getUnaryInterceptorChain(cfg))
        streamInterceptorOpt == InterceptorOpt("stream", getStreamInterceptorChain(cfg))
        cfg1 == [cfg EXCEPT !.Opts = @ \o << unaryInterceptorOpt, streamInterceptorOpt >>]
        tls == maybeLoadTLSCredentials(cfg1, fs)
    IN  IF tls.err # NoErr
        THEN [Config |-> tls.cfg, Server |-> "nil", err |-> tls.err]
        ELSE \* grpc.NewServer(s.Config.Opts...), health service registered
             [Config |-> tls.cfg, Server |-> "server", err |-> NoErr]

\* the defaults NewGrpcServer gives the two recovery callbacks
withDefaults(cfg) ==
    [cfg EXCEPT !.GetErrorToReturn = IF @ = "nil" THEN "default" ELSE @,
                !.CaptureRecoveredErr = IF @ = "nil" THEN "default" ELSE @]

\* what NewGrpcServer returns: "return grpcServer, err"
NewGrpcServerResult(cfg, fs) ==
    LET s == initialize(withDefaults(cfg), fs)
    IN  [ptr |-> "obj", Config |-> s.Config, Server |-> s.Server, err |-> s.err]

\* before NewGrpcServer has returned nothing is held
NoRet(cfg) == [ptr |-> "nil", Config |-> cfg, Server |-> "nil", err |-> NoErr]

NewGrpcServer ==
    /\ newPc = "start"
    /\ newPc' = "done"
    /\ ret' = NewGrpcServerResult(config, files)
    /\ UNCHANGED << config, files, callVars, lifeVars, crashed >>

Configs ==
    [ TlsCertPath : Paths, TlsKeyPath : Paths, TlsCaPath : Paths,
      MinTlsVersion : TlsVersions,
      Opts : { << >>, << UserOpt >> },
      GetErrorToReturn : { "nil", "wrap", "drop" },
      CaptureRecoveredErr : { "nil", "always", "never" },
      SentryEnabled : BOOLEAN,
      AuthFunc : { "nil", "auth" },
      UnaryServerInterceptors : SeqsUpTo(ExtraIds, MaxExtras),
      StreamServerInterceptors : SeqsUpTo(ExtraIds, MaxExtras) ]

FileOutcomes == [ keyPairLoads : BOOLEAN, caReadable : BOOLEAN, caParses : BOOLEAN ]

\* a configuration with no TLS, no auth, no extras and default callbacks
PlainConfig ==
    [ TlsCertPath |-> "", TlsKeyPath |-> "", TlsCaPath |-> "",
      MinTlsVersion |-> 0, Opts |-> << >>,
      GetErrorToReturn |-> "nil", CaptureRecoveredErr |-> "nil",
      SentryEnabled |-> FALSE, AuthFunc |-> "nil",
      UnaryServerInterceptors |-> << >>, StreamServerInterceptors |-> << >> ]

GoodFiles == [ keyPairLoads |-> TRUE, caReadable |-> TRUE, caParses |-> TRUE ]

\* ---------------------------------------------------------------------
\* One call through the composed interceptor, stage by stage
\* ---------------------------------------------------------------------

\* errorutils.RecoverErr(p): a string becomes errors.New(p), an error is
\* kept, anything else becomes a fixed error
RecoverErr(p) ==
    IF p.t = "string" THEN GoErr(p.v)
    ELSE IF p.t = "error" THEN GoErr(p.v)
    ELSE GoErr("unknown panic")

\* a default mapping that builds the status from the recovered error
GetErrorToReturnLeaky(cfg, e) ==
    IF cfg.GetErrorToReturn = "default" THEN [code |-> "Internal", msg |-> e.msg]
    ELSE IF cfg.GetErrorToReturn = "drop" THEN NoErr
    ELSE [code |-> "Wrapped", msg |-> e.msg]

\* s.Config.GetErrorToReturn(recoveredErr): the default installed by
\* NewGrpcServer, or the caller's function ("wrap" keeps the message,
\* "drop" maps every panic to a nil error)
GetErrorToReturn(cfg, e) ==
    IF cfg.GetErrorToReturn = "default" THEN StatusInternal
    ELSE IF cfg.GetErrorToReturn = "drop" THEN NoErr
    ELSE [code |-> "Wrapped", msg |-> e.msg]

\* a default decision that reports regardless of SentryEnabled
CaptureRecoveredErrAlways(cfg, e) ==
    IF cfg.CaptureRecoveredErr = "default" THEN TRUE
    ELSE cfg.CaptureRecoveredErr = "always"

\* s.Config.CaptureRecoveredErr(err): the default installed by NewGrpcServer
\* answers SentryEnabled, the caller's functions answer always or never
CaptureRecoveredErr(cfg, e) ==
    IF cfg.CaptureRecoveredErr = "default" THEN cfg.SentryEnabled
    ELSE cfg.CaptureRecoveredErr = "always"

\* errorutils.LogOnErr(nil, msg, err) logs msg with err when err is not nil
\* and does nothing otherwise (run() calls it unconditionally after
\* net.Listen)
LogOnErr(err) == err # NoErr

\* the function given to grpc_recovery.WithRecoveryHandler. Calling a nil
\* callback panics inside the deferred recovery, which nothing catches.
recoveryHandler(cfg, p) ==
    IF cfg.GetErrorToReturn = "nil" \/ cfg.CaptureRecoveredErr = "nil"
    THEN [ok |-> FALSE, err |-> NoErr, reported |-> FALSE]
    ELSE LET recoveredErr == RecoverErr(p)
             err == GetErrorToReturn(cfg, recoveredErr)
         IN  [ok |-> TRUE, err |-> err,
              reported |-> CaptureRecoveredErr(cfg, err) /\ LogOnErr(err)]

AuthErr == [code |-> "Unauthenticated", msg |-> "rejected by AuthFunc"]
ExtraErr == [code |-> "Aborted", msg |-> "rejected by an extra interceptor"]
HandlerErr == [code |-> "NotFound", msg |-> "handler error"]

Kinds == { "unary", "stream" }

IdleCall ==
    [st |-> "idle", kind |-> "unary", pos |-> 0, trace |-> << >>,
     panic |-> NoPanic, at |-> "", result |-> NoErr, reported |-> FALSE]

\* the interceptor grpc.NewServer was given for calls of this kind
ChainOf(kind) ==
    LET opt == CHOOSE o \in { ret.Config.Opts[i] : i \in DOMAIN ret.Config.Opts } :
                   o.type = kind
    IN  opt.chain

\* the stage call c is about to run
StageOf(c) ==
    LET chain == ChainOf(calls[c].kind)
    IN  IF calls[c].pos <= Len(chain) THEN chain[calls[c].pos] ELSE "handler"

\* the transport hands a new call (or stream) to the chain
CallArrive(c, kind) ==
    /\ crashed = "no"
    /\ newPc = "done"
    /\ ret.Server = "server"
    /\ calls[c].st \in { "idle", "returned" }
    /\ calls' = [calls EXCEPT ![c] =
                    [IdleCall EXCEPT !.st = "running", !.kind = kind, !.pos = 1]]
    /\ UNCHANGED << newVars, lifeVars, crashed >>

\* the stage runs and calls the next one (AuthFunc accepted the call)
StagePass(c) ==
    /\ crashed = "no"
    /\ calls[c].st = "running"
    /\ StageOf(c) # "handler"
    /\ calls' = [calls EXCEPT ![c].trace = Append(@, StageOf(c)),
                              ![c].pos = @ + 1]
    /\ UNCHANGED << newVars, lifeVars, crashed >>

\* AuthFunc or an extra interceptor returns an error without calling the
\* next stage; the metrics and recovery interceptors pass the error on
StageReject(c) ==
    /\ crashed = "no"
    /\ calls[c].st = "running"
    /\ StageOf(c) \in { "auth" } \cup ExtraIds
    /\ calls' = [calls EXCEPT ![c].trace = Append(@, StageOf(c)),
                              ![c].st = "returned",
                              ![c].at = StageOf(c),
                              ![c].result = IF StageOf(c) = "auth" THEN AuthErr
                                            ELSE ExtraErr]
    /\ UNCHANGED << newVars, lifeVars, crashed >>

\* the handler returns, with or without an error
HandlerReturn(c, r) ==
    /\ crashed = "no"
    /\ calls[c].st = "running"
    /\ StageOf(c) = "handler"
    /\ calls' = [calls EXCEPT ![c].trace = Append(@, "handler"),
                              ![c].st = "returned",
                              ![c].at = "handler",
                              ![c].result = r]
    /\ UNCHANGED << newVars, lifeVars, crashed >>

\* whether a recovery interceptor encloses position pos of the chain
Recovers(chain, pos) ==
    \E i \in 1 .. Len(chain) : i < pos /\ chain[i] = "recovery"

\* AuthFunc, an extra interceptor or the handler panics with value p. The
\* panic unwinds to the enclosing recovery interceptor, whose handler maps
\* it; with none enclosing (or with the handler itself panicking) it leaves
\* the goroutine and ends the process.
StagePanic(c, p) ==
    /\ crashed = "no"
    /\ calls[c].st = "running"
    /\ StageOf(c) \in { "auth", "handler" } \cup ExtraIds
    /\ LET h == recoveryHandler(ret.Config, p)
           caught == Recovers(ChainOf(calls[c].kind), calls[c].pos) /\ h.ok
       IN  /\ calls' = [calls EXCEPT ![c].trace = Append(@, StageOf(c)),
                                     ![c].st = IF caught THEN "returned" ELSE "escaped",
                                     ![c].at = StageOf(c),
                                     ![c].panic = p,
                                     ![c].result = IF caught THEN h.err ELSE NoErr,
                                     ![c].reported = caught /\ h.reported]
           /\ crashed' = IF caught THEN crashed ELSE "call"
    /\ UNCHANGED << newVars, lifeVars >>

\* ---------------------------------------------------------------------
\* Lifecycle: Run, run, the goroutine calling Server.Serve, and
\* servePrometheusMetrics, over the package-level shutDown, runError, wg
\* ---------------------------------------------------------------------

\* the error net.Listen returns when the port cannot be bound
BindErr(i) == [code |-> "bind", msg |-> i]
\* a non-temporary Accept error, with which Server.Serve of instance i returns
AcceptErr(i) == [code |-> "accept", msg |-> i]
\* grpc.ErrServerStopped: Serve called after Stop
ErrServerStopped == [code |-> "stopped", msg |-> "grpc: the server has been stopped"]

\* Run, lines 112-116: signal.Notify, wg.Add(1), go s.run(), and Run
\* arrives at its select
RunStart(i) ==
    /\ crashed = "no"
    /\ runPc[i] = "idle"
    /\ wg' = wg + 1
    /\ supPc' = [supPc EXCEPT ![i] = "start"]
    /\ runPc' = [runPc EXCEPT ![i] = "select"]
    /\ gateAtRun' = [gateAtRun EXCEPT ![i] = shutDown]
    /\ UNCHANGED << newVars, callVars, shutDown, selected, runRet, osSignal, listener,
                    srvPc, srvVal, server, metricsPc, inflight, crashed >>

\* the process receives os.Interrupt: signal.Notify's non-blocking send to
\* every registered channel (each has room for one)
Interrupt ==
    /\ crashed = "no"
    /\ \E i \in Inst : runPc[i] # "idle" /\ osSignal[i] = 0
    /\ osSignal' = [i \in Inst |-> IF runPc[i] # "idle" THEN 1 ELSE osSignal[i]]
    /\ UNCHANGED << newVars, callVars, gateAtRun, shutDown, wg, runPc, selected, runRet, supPc,
                    listener, srvPc, srvVal, server, metricsPc, inflight, crashed >>

\* the receive of Run's select with the received value dropped
RunRecvErrDropped(i, j) ==
    /\ crashed = "no"
    /\ runPc[i] = "select"
    /\ srvPc[j] = "send"
    /\ srvPc' = [srvPc EXCEPT ![j] = "done"]
    /\ selected' = [selected EXCEPT ![i] = "runError"]
    /\ runPc' = [runPc EXCEPT ![i] = "close"]
    /\ UNCHANGED << newVars, callVars, gateAtRun, shutDown, wg, runRet, osSignal, supPc, listener,
                    srvVal, server, metricsPc, inflight, crashed >>

\* "case runErr := <-runError": the unbuffered package-level channel hands
\* Run of instance i the value a Serve goroutine (of any instance j) sends
RunRecvErr(i, j) ==
    /\ crashed = "no"
    /\ runPc[i] = "select"
    /\ srvPc[j] = "send"
    /\ srvPc' = [srvPc EXCEPT ![j] = "done"]
    /\ runRet' = [runRet EXCEPT ![i] = srvVal[j]]
    /\ selected' = [selected EXCEPT ![i] = "runError"]
    /\ runPc' = [runPc EXCEPT ![i] = "close"]
    /\ UNCHANGED << newVars, callVars, gateAtRun, shutDown, wg, osSignal, supPc, listener, srvVal,
                    server, metricsPc, inflight, crashed >>

\* the signal case of a select that sits in a loop: Run stays at the select
RunRecvSignalLoop(i) ==
    /\ crashed = "no"
    /\ runPc[i] = "select"
    /\ osSignal[i] = 1
    /\ osSignal' = [osSignal EXCEPT ![i] = 0]
    /\ selected' = [selected EXCEPT ![i] = "osSignal"]
    /\ UNCHANGED << newVars, callVars, gateAtRun, shutDown, wg, runPc, runRet, supPc, listener, srvPc,
                    srvVal, server, metricsPc, inflight, crashed >>

\* "case <-osSignal": err stays nil
RunRecvSignal(i) ==
    /\ crashed = "no"
    /\ runPc[i] = "select"
    /\ osSignal[i] = 1
    /\ osSignal' = [osSignal EXCEPT ![i] = 0]
    /\ selected' = [selected EXCEPT ![i] = "osSignal"]
    /\ runPc' = [runPc EXCEPT ![i] = "close"]
    /\ UNCHANGED << newVars, callVars, gateAtRun, shutDown, wg, runRet, supPc, listener, srvPc,
                    srvVal, server, metricsPc, inflight, crashed >>

\* a close guarded against a second execution (as by a sync.Once)
RunCloseOnce(i) ==
    /\ crashed = "no"
    /\ runPc[i] = "close"
    /\ shutDown' = "closed"
    /\ runPc' = [runPc EXCEPT ![i] = "wait"]
    /\ UNCHANGED << newVars, callVars, gateAtRun, wg, selected, runRet, osSignal, supPc,
                    listener, srvPc, srvVal, server, metricsPc, inflight, crashed >>

\* close(shutDown): closing the closed channel panics in Run's goroutine
RunClose(i) ==
    /\ crashed = "no"
    /\ runPc[i] = "close"
    /\ IF shutDown = "closed"
       THEN /\ crashed' = "close"
            /\ UNCHANGED << shutDown, runPc >>
       ELSE /\ shutDown' = "closed"
            /\ runPc' = [runPc EXCEPT ![i] = "wait"]
            /\ UNCHANGED crashed
    /\ UNCHANGED << newVars, callVars, gateAtRun, wg, selected, runRet, osSignal, supPc, listener,
                    srvPc, srvVal, server, metricsPc, inflight >>

\* Run returning without wg.Wait()
RunWaitSkipped(i) ==
    /\ crashed = "no"
    /\ runPc[i] = "wait"
    /\ runPc' = [runPc EXCEPT ![i] = "returned"]
    /\ UNCHANGED << newVars, callVars, gateAtRun, shutDown, wg, selected, runRet, osSignal, supPc,
                    listener, srvPc, srvVal, server, metricsPc, inflight, crashed >>

\* wg.Wait() returns once the counter is zero, and Run returns err
RunWait(i) ==
    /\ crashed = "no"
    /\ runPc[i] = "wait"
    /\ wg = 0
    /\ runPc' = [runPc EXCEPT ![i] = "returned"]
    /\ UNCHANGED << newVars, callVars, gateAtRun, shutDown, wg, selected, runRet, osSignal, supPc,
                    listener, srvPc, srvVal, server, metricsPc, inflight, crashed >>

\* run, lines 155-160: net.Listen binds the port or fails; a failure is
\* logged (errorutils.LogOnErr) and run goes on with a nil listener
SupListen(i, ok) ==
    /\ crashed = "no"
    /\ supPc[i] = "start"
    /\ listener' = [listener EXCEPT ![i] = IF ok THEN "bound" ELSE "nil"]
    /\ supPc' = [supPc EXCEPT ![i] = "spawn"]
    /\ UNCHANGED << newVars, callVars, gateAtRun, shutDown, wg, runPc, selected, runRet, osSignal,
                    srvPc, srvVal, server, metricsPc, inflight, crashed >>

\* run, lines 162-170: go s.servePrometheusMetrics() if enabled, and the
\* goroutine that calls s.Server.Serve(listener)
SupSpawn(i) ==
    /\ crashed = "no"
    /\ supPc[i] = "spawn"
    /\ metricsPc' = [metricsPc EXCEPT ![i] = IF @ = "enabled" THEN "start" ELSE @]
    /\ srvPc' = [srvPc EXCEPT ![i] = "start"]
    /\ supPc' = [supPc EXCEPT ![i] = "gate"]
    /\ UNCHANGED << newVars, callVars, gateAtRun, shutDown, wg, runPc, selected, runRet, osSignal,
                    listener, srvVal, server, inflight, crashed >>

\* "<-shutDown" returns once the package-level channel is closed
SupPassGate(i) ==
    /\ crashed = "no"
    /\ supPc[i] = "gate"
    /\ shutDown = "closed"
    /\ supPc' = [supPc EXCEPT ![i] = "stop"]
    /\ UNCHANGED << newVars, callVars, gateAtRun, shutDown, wg, runPc, selected, runRet, osSignal,
                    listener, srvPc, srvVal, server, metricsPc, inflight, crashed >>

\* s.Server.Stop() begins: it closes the listeners and connections and
\* tells the Serve loop to quit; it does not wait for running handlers
SupStopBegin(i) ==
    /\ crashed = "no"
    /\ supPc[i] = "stop"
    /\ server' = [server EXCEPT ![i] = "stopping"]
    /\ supPc' = [supPc EXCEPT ![i] = "stopping"]
    /\ UNCHANGED << newVars, callVars, gateAtRun, shutDown, wg, runPc, selected, runRet, osSignal,
                    listener, srvPc, srvVal, metricsPc, inflight, crashed >>

\* run without the deferred wg.Done()
SupStopEndNoDone(i) ==
    /\ crashed = "no"
    /\ supPc[i] = "stopping"
    /\ srvPc[i] # "serving"
    /\ server' = [server EXCEPT ![i] = "stopped"]
    /\ supPc' = [supPc EXCEPT ![i] = "done"]
    /\ UNCHANGED << newVars, callVars, gateAtRun, shutDown, wg, runPc, selected, runRet, osSignal,
                    listener, srvPc, srvVal, metricsPc, inflight, crashed >>

\* s.Server.Stop() returns once no Serve loop is running, then run returns
\* and its deferred wg.Done() runs
SupStopEnd(i) ==
    /\ crashed = "no"
    /\ supPc[i] = "stopping"
    /\ srvPc[i] # "serving"
    /\ server' = [server EXCEPT ![i] = "stopped"]
    /\ supPc' = [supPc EXCEPT ![i] = "done"]
    /\ wg' = wg - 1
    /\ UNCHANGED << newVars, callVars, gateAtRun, shutDown, runPc, selected, runRet, osSignal,
                    listener, srvPc, srvVal, metricsPc, inflight, crashed >>

\* the goroutine of lines 167-170 calls s.Server.Serve(listener). Serve
\* calls a method of the listener: with the nil listener of a failed bind
\* that is a nil dereference, a panic nothing recovers. After Stop, Serve
\* closes the listener and returns ErrServerStopped.
ServeEnter(i) ==
    /\ crashed = "no"
    /\ srvPc[i] = "start"
    /\ IF listener[i] = "nil"
       THEN /\ crashed' = "serve"
            /\ UNCHANGED << srvPc, srvVal, server >>
       ELSE IF server[i] \in { "stopping", "stopped" }
       THEN /\ srvVal' = [srvVal EXCEPT ![i] = ErrServerStopped]
            /\ srvPc' = [srvPc EXCEPT ![i] = "send"]
            /\ UNCHANGED << server, crashed >>
       ELSE /\ srvPc' = [srvPc EXCEPT ![i] = "serving"]
            /\ server' = [server EXCEPT ![i] = "serving"]
            /\ UNCHANGED << srvVal, crashed >>
    /\ UNCHANGED << newVars, callVars, gateAtRun, shutDown, wg, runPc, selected, runRet, osSignal,
                    supPc, listener, metricsPc, inflight >>

\* Accept fails for good while the server is serving: Serve returns the error
ServeFail(i) ==
    /\ crashed = "no"
    /\ srvPc[i] = "serving"
    /\ server[i] = "serving"
    /\ srvVal' = [srvVal EXCEPT ![i] = AcceptErr(i)]
    /\ srvPc' = [srvPc EXCEPT ![i] = "send"]
    /\ server' = [server EXCEPT ![i] = "failed"]
    /\ UNCHANGED << newVars, callVars, gateAtRun, shutDown, wg, runPc, selected, runRet, osSignal,
                    supPc, listener, metricsPc, inflight, crashed >>

\* the Serve loop sees that Stop was called and leaves; Serve then blocks
\* until Stop is done
ServeQuit(i) ==
    /\ crashed = "no"
    /\ srvPc[i] = "serving"
    /\ server[i] = "stopping"
    /\ srvPc' = [srvPc EXCEPT ![i] = "quit"]
    /\ UNCHANGED << newVars, callVars, gateAtRun, shutDown, wg, runPc, selected, runRet, osSignal,
                    supPc, listener, srvVal, server, metricsPc, inflight, crashed >>

\* Stop is done: Serve returns nil, which the goroutine goes on to send
ServeReturn(i) ==
    /\ crashed = "no"
    /\ srvPc[i] = "quit"
    /\ server[i] = "stopped"
    /\ srvVal' = [srvVal EXCEPT ![i] = NoErr]
    /\ srvPc' = [srvPc EXCEPT ![i] = "send"]
    /\ UNCHANGED << newVars, callVars, gateAtRun, shutDown, wg, runPc, selected, runRet, osSignal,
                    supPc, listener, server, metricsPc, inflight, crashed >>

\* servePrometheusMetrics: http.ListenAndServe binds and serves
MetricsServe(i) ==
    /\ crashed = "no"
    /\ metricsPc[i] = "start"
    /\ metricsPc' = [metricsPc EXCEPT ![i] = "serving"]
    /\ UNCHANGED << newVars, callVars, gateAtRun, shutDown, wg, runPc, selected, runRet, osSignal,
                    supPc, listener, srvPc, srvVal, server, inflight, crashed >>

\* servePrometheusMetrics logging the error (LogOnErr) where it panics
MetricsFailLogged(i) ==
    /\ crashed = "no"
    /\ metricsPc[i] \in { "start", "serving" }
    /\ metricsPc' = [metricsPc EXCEPT ![i] = "failed"]
    /\ UNCHANGED << newVars, callVars, gateAtRun, shutDown, wg, runPc, selected, runRet, osSignal,
                    supPc, listener, srvPc, srvVal, server, inflight, crashed >>

\* http.ListenAndServe returns (it only returns an error) and
\* errorutils.PanicOnErr panics in the metrics goroutine
MetricsFail(i) ==
    /\ crashed = "no"
    /\ metricsPc[i] \in { "start", "serving" }
    /\ metricsPc' = [metricsPc EXCEPT ![i] = "failed"]
    /\ crashed' = "metrics"
    /\ UNCHANGED << newVars, callVars, gateAtRun, shutDown, wg, runPc, selected, runRet, osSignal,
                    supPc, listener, srvPc, srvVal, server, inflight >>

\* a handler starts on a serving server
HandlerBegin(i) ==
    /\ crashed = "no"
    /\ srvPc[i] = "serving"
    /\ server[i] = "serving"
    /\ inflight[i] < MaxInflight
    /\ inflight' = [inflight EXCEPT ![i] = @ + 1]
    /\ UNCHANGED << newVars, callVars, gateAtRun, shutDown, wg, runPc, selected, runRet, osSignal,
                    supPc, listener, srvPc, srvVal, server, metricsPc, crashed >>

\* a running handler returns
HandlerEnd(i) ==
    /\ crashed = "no"
    /\ inflight[i] > 0
    /\ inflight' = [inflight EXCEPT ![i] = @ - 1]
    /\ UNCHANGED << newVars, callVars, gateAtRun, shutDown, wg, runPc, selected, runRet, osSignal,
                    supPc, listener, srvPc, srvVal, server, metricsPc, crashed >>

\* ---------------------------------------------------------------------
\* Specifications
\* ---------------------------------------------------------------------

IdleLife ==
    /\ shutDown = "open"
    /\ wg = 0
    /\ runPc = [i \in Inst |-> "idle"]
    /\ selected = [i \in Inst |-> "none"]
    /\ gateAtRun = [i \in Inst |-> "none"]
    /\ runRet = [i \in Inst |-> NoErr]
    /\ osSignal = [i \in Inst |-> 0]
    /\ supPc = [i \in Inst |-> "none"]
    /\ listener = [i \in Inst |-> "none"]
    /\ srvPc = [i \in Inst |-> "none"]
    /\ srvVal = [i \in Inst |-> NoErr]
    /\ server = [i \in Inst |-> "new"]
    /\ inflight = [i \in Inst |-> 0]

IdleCalls ==
    /\ calls = [c \in CallIds |-> IdleCall]

\* the process after two servers were constructed without error
Init ==
    /\ config = PlainConfig
    /\ files = GoodFiles
    /\ newPc = "done"
    /\ ret = NewGrpcServerResult(PlainConfig, GoodFiles)
    /\ IdleCalls
    /\ IdleLife
    /\ metricsPc \in [Inst -> { "disabled", "enabled" }]
    /\ crashed = "no"

LifeStep(i) ==
    \/ RunStart(i)
    \/ \E j \in Inst : RunRecvErr(i, j)
    \/ RunRecvSignal(i)
    \/ RunClose(i)
    \/ RunWait(i)
    \/ \E ok \in BOOLEAN : SupListen(i, ok)
    \/ SupSpawn(i)
    \/ SupPassGate(i)
    \/ SupStopBegin(i)
    \/ SupStopEnd(i)
    \/ ServeEnter(i)
    \/ ServeFail(i)
    \/ ServeQuit(i)
    \/ ServeReturn(i)
    \/ MetricsServe(i)
    \/ MetricsFail(i)
    \/ HandlerBegin(i)
    \/ HandlerEnd(i)

Next ==
    \/ Interrupt
    \/ \E i \in Inst : LifeStep(i)

\* Run is called on both instances, in any interleaving
Spec == Init /\ [][Next]_vars

NextOne ==
    \/ Interrupt
    \/ LifeStep("A")

\* a single Run invocation: only instance A is ever run
SpecOne == Init /\ [][NextOne]_vars

\* the steps of the goroutine that called Run, once it is in Run
RunStep(i) ==
    \/ \E j \in Inst : RunRecvErr(i, j)
    \/ RunRecvSignal(i)
    \/ RunClose(i)
    \/ RunWait(i)

\* the steps of the goroutine run()
SupStep(i) ==
    \/ \E ok \in BOOLEAN : SupListen(i, ok)
    \/ SupSpawn(i)
    \/ SupPassGate(i)
    \/ SupStopBegin(i)
    \/ SupStopEnd(i)

\* the steps of the goroutine that calls Server.Serve which the program
\* takes by itself: entering Serve, leaving the accept loop on Stop, and
\* returning. A failing Accept is the environment's.
ServeStep(i) ==
    \/ ServeEnter(i)
    \/ ServeQuit(i)
    \/ ServeReturn(i)

\* a single Run invocation in which every goroutine that can keep taking a
\* step takes one, and Server.Stop returns once the accept loop has ended;
\* signals, Accept failures, handlers and the metrics endpoint stay free
SpecOneFair ==
    /\ Init
    /\ [][NextOne]_vars
    /\ WF_vars(RunStep("A"))
    /\ WF_vars(SupStep("A"))
    /\ WF_vars(ServeStep("A"))

\* construction, over every TLS configuration and every outcome of loading
InitNew ==
    /\ config \in { c \in Configs :
                      /\ c.GetErrorToReturn = "nil"
                      /\ c.CaptureRecoveredErr = "nil"
                      /\ c.SentryEnabled = FALSE
                      /\ c.AuthFunc = "nil"
                      /\ c.UnaryServerInterceptors = << >>
                      /\ c.StreamServerInterceptors = << >> }
    /\ files \in FileOutcomes
    /\ newPc = "start"
    /\ ret = NoRet(config)
    /\ IdleCalls
    /\ IdleLife
    /\ metricsPc = [i \in Inst |-> "disabled"]
    /\ crashed = "no"

NextNew == NewGrpcServer

SpecNew == InitNew /\ [][NextNew]_vars

\* calls through the chain, over every choice of AuthFunc, panic mapping and
\* extra interceptors; the unary and the stream list feed two separate
\* functions, and the configurations vary one list at a time
InitChain ==
    /\ config \in { c \in Configs :
                      /\ c.TlsCertPath = "" /\ c.TlsKeyPath = "" /\ c.TlsCaPath = ""
                      /\ c.MinTlsVersion = 0
                      /\ c.Opts = << >>
                      /\ c.CaptureRecoveredErr = "nil"
                      /\ c.SentryEnabled = FALSE
                      /\ \/ c.UnaryServerInterceptors = << >>
                         \/ c.StreamServerInterceptors = << >> }
    /\ files = GoodFiles
    /\ newPc = "start"
    /\ ret = NoRet(config)
    /\ IdleCalls
    /\ IdleLife
    /\ metricsPc = [i \in Inst |-> "disabled"]
    /\ crashed = "no"

NextChain ==
    \/ NewGrpcServer
    \/ \E c \in CallIds, k \in Kinds : CallArrive(c, k)
    \/ \E c \in CallIds : StagePass(c)
    \/ \E c \in CallIds : StageReject(c)
    \/ \E c \in CallIds, r \in { NoErr, HandlerErr } : HandlerReturn(c, r)
    \/ \E c \in CallIds, p \in PanicValues : StagePanic(c, p)

SpecChain == InitChain /\ [][NextChain]_vars

\* Calls under every setting of the recovery callbacks: the mapping and the
\* report decision left nil or supplied, error tracking on or off, with no
\* AuthFunc and no extra interceptors
InitRecover ==
    /\ config \in { c \in Configs :
                      /\ c.TlsCertPath = "" /\ c.TlsKeyPath = "" /\ c.TlsCaPath = ""
                      /\ c.MinTlsVersion = 0
                      /\ c.Opts = << >>
                      /\ c.AuthFunc = "nil"
                      /\ c.UnaryServerInterceptors = << >>
                      /\ c.StreamServerInterceptors = << >> }
    /\ files = GoodFiles
    /\ newPc = "start"
    /\ ret = NoRet(config)
    /\ IdleCalls
    /\ IdleLife
    /\ metricsPc = [i \in Inst |-> "disabled"]
    /\ crashed = "no"

NextRecover ==
    \/ NewGrpcServer
    \/ \E c \in CallIds, k \in Kinds : CallArrive(c, k)
    \/ \E c \in CallIds : StagePass(c)
    \/ \E c \in CallIds, r \in { NoErr, HandlerErr } : HandlerReturn(c, r)
    \/ \E c \in CallIds, p \in PanicValues : StagePanic(c, p)

SpecRecover == InitRecover /\ [][NextRecover]_vars

\* ---------------------------------------------------------------------
\* Properties
\* ---------------------------------------------------------------------

\* C1: a call whose handler panicked has returned the error that
\* GetErrorToReturn (the caller's, or the default) gives for the recovered
\* value, the panic never ends the process, and the slot accepts the next
\* call, however many calls panicked before or beside it.
C1_PanicReturnsMappedError ==
    /\ crashed = "no"
    /\ \A c \in CallIds :
          (calls[c].panic # NoPanic /\ calls[c].at = "handler") =>
             /\ calls[c].st = "returned"
             /\ calls[c].result =
                   GetErrorToReturn(withDefaults(config), RecoverErr(calls[c].panic))
             /\ \A k \in Kinds : ENABLED CallArrive(c, k)

\* two calls, a unary one and a stream, both returned from a handler panic
\* under a caller-supplied mapping
C1_Witness ==
    /\ config.GetErrorToReturn = "wrap"
    /\ calls["c1"].st = "returned" /\ calls["c1"].at = "handler"
    /\ calls["c1"].panic.t = "string" /\ calls["c1"].kind = "unary"
    /\ calls["c2"].st = "returned" /\ calls["c2"].at = "handler"
    /\ calls["c2"].panic.t = "other" /\ calls["c2"].kind = "stream"

\* C2: in a single Run invocation, Run returns nil when its select took the
\* interrupt signal, and returns exactly the error Server.Serve returned
\* when its select took the value from runError.
C2_RunReturnsTrigger ==
    runPc["A"] = "returned" =>
       /\ selected["A"] = "osSignal" => runRet["A"] = NoErr
       /\ selected["A"] = "runError" =>
             /\ runRet["A"] = AcceptErr("A")
             /\ srvVal["A"] = AcceptErr("A")

C2_Witness ==
    /\ runPc["A"] = "returned"
    /\ selected["A"] = "runError"
    /\ runRet["A"] = AcceptErr("A")

IsPrefix(s, t) == Len(s) <= Len(t) /\ \A i \in 1 .. Len(s) : s[i] = t[i]

\* the order the stages are to run in for a call of this kind
ExpectedOrder(kind) ==
    << "metrics", "recovery" >>
    \o (IF config.AuthFunc # "nil" THEN << "auth" >> ELSE << >>)
    \o (IF kind = "unary" THEN config.UnaryServerInterceptors
        ELSE config.StreamServerInterceptors)
    \o << "handler" >>

\* C3: the stages a unary call or a stream has run so far are always a
\* prefix of metrics, recovery, auth (if AuthFunc is set), the extra
\* interceptors in the order given, the handler; and a call that ran its
\* handler ran all of them.
C3_StageOrder ==
    \A c \in CallIds :
       calls[c].st # "idle" =>
          /\ IsPrefix(calls[c].trace, ExpectedOrder(calls[c].kind))
          /\ calls[c].at = "handler" => calls[c].trace = ExpectedOrder(calls[c].kind)

\* a stream with AuthFunc and two extras, given as x2 then x1, ran its handler
C3_Witness ==
    /\ config.AuthFunc = "auth"
    /\ config.StreamServerInterceptors = << "x2", "x1" >>
    /\ calls["c1"].kind = "stream"
    /\ calls["c1"].st = "returned"
    /\ calls["c1"].trace = << "metrics", "recovery", "auth", "x2", "x1", "handler" >>

\* C4: once Run has returned, the tracked goroutine run() has finished and
\* no handler that was in flight is still running.
C4_RunWaitsForInflightCalls ==
    \A i \in Inst :
       runPc[i] = "returned" => (supPc[i] = "done" /\ inflight[i] = 0)

\* C5: instances do not signal each other: the supervisor of an instance
\* passes the gate only after that instance's own Run closed it, the error
\* Run receives is its own server's, and a Run whose own supervisor is done
\* is not held back in its completion wait.
C5_NoCrossSignal ==
    \A i \in Inst :
       /\ supPc[i] \in { "stop", "stopping", "done" } => runPc[i] \in { "wait", "returned" }
       /\ selected[i] = "runError" => runRet[i] = AcceptErr(i)
       /\ (runPc[i] = "wait" /\ supPc[i] = "done") => wg = 0

\* C6: a failed bind does not end the process, and when Run returns after
\* it, Run returns the bind error.
C6_BindErrorReturned ==
    \A i \in Inst :
       listener[i] = "nil" =>
          /\ crashed # "serve"
          /\ runPc[i] = "returned" => runRet[i] = BindErr(i)

\* C7: when NewGrpcServer returns an error it returns no service object.
C7_NoPartialService ==
    (newPc = "done" /\ ret.err # NoErr) => ret.ptr = "nil"

AllPathsSet(cfg) == cfg.TlsCertPath # "" /\ cfg.TlsKeyPath # "" /\ cfg.TlsCaPath # ""

\* the credential options among a list of server options
CredsIn(opts) == { i \in DOMAIN opts : opts[i].type = "creds" }

\* C8: with any TLS path empty NewGrpcServer adds no credential and returns
\* no error; with all three set and the files loading it adds exactly one
\* credential, whose minimum version is the configured one, or TLS 1.0 when
\* the configured one is zero.
C8_TlsCredential ==
    newPc = "done" =>
       /\ ~AllPathsSet(config) =>
             /\ ret.err = NoErr
             /\ ret.Server = "server"
             /\ CredsIn(ret.Config.Opts) = { }
       /\ (AllPathsSet(config) /\ files.keyPairLoads /\ files.caReadable) =>
             /\ ret.err = NoErr
             /\ Cardinality(CredsIn(ret.Config.Opts)) = 1
             /\ \A i \in CredsIn(ret.Config.Opts) :
                   ret.Config.Opts[i].MinVersion =
                      IF config.MinTlsVersion = 0 THEN VersionTLS10
                      ELSE config.MinTlsVersion

\* all three paths set, no minimum version: one credential with TLS 1.0
C8_Witness ==
    /\ newPc = "done"
    /\ AllPathsSet(config)
    /\ config.MinTlsVersion = 0
    /\ config.Opts # << >>
    /\ \E i \in CredsIn(ret.Config.Opts) : ret.Config.Opts[i].MinVersion = VersionTLS10

\* C9: with all three paths set, NewGrpcServer returns an error when the
\* key pair does not load, the CA file cannot be read, or the CA file does
\* not parse.
C9_BadCaFails ==
    (/\ newPc = "done"
     /\ AllPathsSet(config)
     /\ (~files.keyPairLoads \/ ~files.caReadable \/ ~files.caParses))
       => ret.err # NoErr

\* C10: the step in which servePrometheusMetrics fails ends the process
\* there and then: it leaves the gate, Run and the runError senders as they
\* were, and after it no goroutine takes a step, so Run returns nothing.
C10_MetricsFailureFatal ==
    [][ /\ \A i \in Inst :
              (metricsPc[i] # "failed" /\ metricsPc'[i] = "failed") =>
                 /\ crashed' = "metrics"
                 /\ shutDown' = shutDown
                 /\ runPc' = runPc
                 /\ runRet' = runRet
                 /\ srvPc' = srvPc
        /\ crashed = "metrics" => UNCHANGED vars ]_vars

\* the metrics goroutine ended the process while Run sat in its select
C10_Witness ==
    /\ crashed = "metrics"
    /\ metricsPc["A"] = "failed"
    /\ runPc["A"] = "select"
    /\ shutDown = "open"

\* C11: the gate is closed by an instance's Run, and its Server.Stop is
\* called, only after its listener was bound and its Serve goroutine has
\* entered Server.Serve.
C11_ShutdownAfterServing ==
    \A i \in Inst :
       (runPc[i] \in { "wait", "returned" } \/ server[i] \in { "stopping", "stopped" }) =>
          (listener[i] = "bound" /\ srvPc[i] \notin { "none", "start" })

\* C12: in a single Run invocation the select runs one case and that stays
\* the only one: after it Run takes nothing more from osSignal or runError,
\* and the gate, once closed, stays closed and is never closed again.
C12_OneWinnerOneClose ==
    [][ /\ selected["A"] # "none" =>
              /\ selected'["A"] = selected["A"]
              /\ osSignal'["A"] >= osSignal["A"]
              /\ \A j \in Inst : srvPc[j] = "send" => srvPc'[j] = "send"
        /\ shutDown = "closed" => shutDown' = "closed"
        /\ crashed' # "close"
        /\ runPc'["A"] \in { "wait", "returned" } =>
              (shutDown' = "closed" /\ selected'["A"] # "none") ]_vars

\* Run returned on the interrupt while the Serve goroutine still offers its
\* value on runError
C12_Witness ==
    /\ runPc["A"] = "returned"
    /\ selected["A"] = "osSignal"
    /\ srvPc["A"] = "send"
    /\ shutDown = "closed"

\* C13: when Run has returned, the goroutine that runs the accept loop
\* (the one calling Server.Serve) has finished.
C13_AcceptTaskFinished ==
    \A i \in Inst : runPc[i] = "returned" => srvPc[i] = "done"

\* C14: Run's wait completes only after Server.Stop was called and has
\* returned, and Server.Stop is called only with the gate closed.
C14_WaitAfterStop ==
    \A i \in Inst :
       /\ runPc[i] = "returned" => (supPc[i] = "done" /\ server[i] = "stopped")
       /\ supPc[i] \in { "stop", "stopping", "done" } => shutDown = "closed"
       /\ server[i] \in { "stopping", "stopped" } => shutDown = "closed"

\* both instances ran; the one whose Run returned had its server stopped
C14_Witness ==
    /\ runPc["A"] = "returned"
    /\ server["A"] = "stopped"
    /\ runPc["B"] # "idle"

\* C15: when AuthFunc is configured and rejects a call, the call returns
\* the auth error and neither an extra interceptor nor the handler ran for
\* it; an extra interceptor or the handler runs only after AuthFunc ran
\* and let the call through.
C15_AuthGatesTheRest ==
    config.AuthFunc # "nil" =>
       \A c \in CallIds :
          LET t == calls[c].trace
              inner == { i \in 1 .. Len(t) : t[i] \in ExtraIds \cup { "handler" } }
          IN  /\ (calls[c].st = "returned" /\ calls[c].at = "auth"
                    /\ calls[c].panic = NoPanic) =>
                    (calls[c].result = AuthErr /\ inner = { })
              /\ \A i \in inner : \E j \in 1 .. (i - 1) : t[j] = "auth"

\* a unary call with two extras configured was rejected by AuthFunc
C15_Witness ==
    /\ config.AuthFunc = "auth"
    /\ config.UnaryServerInterceptors = << "x1", "x2" >>
    /\ calls["c1"].kind = "unary"
    /\ calls["c1"].st = "returned"
    /\ calls["c1"].result = AuthErr
    /\ calls["c1"].trace = << "metrics", "recovery", "auth" >>
    /\ calls["c2"].st = "returned" /\ calls["c2"].at = "handler"

\* C16: a panic inside AuthFunc is caught by the recovery interceptor: the
\* call returns the mapped error, the process goes on and the slot accepts
\* the next call, as for a panic in the handler.
C16_AuthPanicRecovered ==
    \A c \in CallIds :
       (calls[c].panic # NoPanic /\ calls[c].at = "auth") =>
          /\ crashed = "no"
          /\ calls[c].st = "returned"
          /\ calls[c].result =
                GetErrorToReturn(withDefaults(config), RecoverErr(calls[c].panic))
          /\ ~ \E i \in 1 .. Len(calls[c].trace) : calls[c].trace[i] = "handler"
          /\ \A k \in Kinds : ENABLED CallArrive(c, k)

\* a stream whose AuthFunc panicked has returned while another call that
\* arrived on the same server ran its handler
C16_Witness ==
    /\ config.AuthFunc = "auth"
    /\ calls["c1"].kind = "stream"
    /\ calls["c1"].st = "returned" /\ calls["c1"].at = "auth"
    /\ calls["c1"].panic.t = "error"
    /\ calls["c2"].st = "returned" /\ calls["c2"].at = "handler"
    /\ calls["c2"].panic = NoPanic

\* C17: with no GetErrorToReturn supplied, every panicking call returns
\* the one generic internal error: two calls that differ only in the panic
\* value return the same error, and it carries nothing of either value.
C17_DefaultMappingHidesPayload ==
    config.GetErrorToReturn = "nil" =>
       \A c, d \in CallIds :
          (calls[c].panic # NoPanic /\ calls[d].panic # NoPanic) =>
             /\ calls[c].st = "returned"
             /\ calls[c].result = calls[d].result
             /\ calls[c].result = StatusInternal
             /\ \A p \in PanicValues : calls[c].result.msg # p.v

\* two calls of the same kind panicked in the handler with different values
C17_Witness ==
    /\ config.GetErrorToReturn = "nil"
    /\ calls["c1"].kind = calls["c2"].kind
    /\ calls["c1"].at = "handler" /\ calls["c2"].at = "handler"
    /\ calls["c1"].panic = [t |-> "string", v |-> "boom"]
    /\ calls["c2"].panic = [t |-> "error", v |-> "db down"]
    /\ calls["c1"].st = "returned" /\ calls["c2"].st = "returned"

\* the decision the configuration asks for: the caller's CaptureRecoveredErr,
\* or SentryEnabled when none was given
ShouldReport ==
    IF config.CaptureRecoveredErr = "nil" THEN config.SentryEnabled
    ELSE config.CaptureRecoveredErr = "always"

\* the callbacks are set on every server that handles calls, and no call
\* without a recovered panic is reported
CallbacksSet ==
    /\ newPc = "done" =>
          (ret.Config.GetErrorToReturn # "nil" /\ ret.Config.CaptureRecoveredErr # "nil")
    /\ crashed = "no"
    /\ \A c \in CallIds :
          /\ calls[c].panic = NoPanic => ~ calls[c].reported
          /\ calls[c].panic # NoPanic => calls[c].st = "returned"

C19_NoTaskLeak ==
    (runPc["A"] = "returned")
       ~> ((supPc["A"] = "done" /\ srvPc["A"] = "done") \/ crashed # "no")

\* the state both ways to trigger the shutdown of a bound server lead from:
\* the interrupt is in Run's signal channel, or Serve has returned
Triggered ==
    /\ listener["A"] = "bound"
    /\ (osSignal["A"] = 1 \/ srvPc["A"] = "send")

\* C20 (as stated): in a single Run invocation whose listener is bound, once
\* the interrupt was delivered or Serve has returned, Run returns.
C20_RunReturns ==
    Triggered ~> (runPc["A"] = "returned")

\* C20 (amended): in a single Run invocation whose listener is bound, once
\* the interrupt was delivered or Serve has returned, Run returns, unless a
\* failure of the metrics endpoint ends the process first.
C20_RunReturnsUnlessMetricsPanic ==
    Triggered ~> (runPc["A"] = "returned" \/ crashed = "metrics")

\* Run returned from a bound server after the interrupt, having waited for
\* run() between closing the gate and returning
C20_Witness ==
    /\ listener["A"] = "bound"
    /\ selected["A"] = "osSignal"
    /\ shutDown = "closed"
    /\ supPc["A"] = "done"
    /\ runPc["A"] = "returned"

\* C21: the gate, once closed, is never open again; a Run called with the
\* gate already closed never gets past close(shutDown), so it neither waits
\* nor returns: its close panics; and its run() never has to wait at the
\* gate, so its server is stopped as soon as run() gets there.
C21_RunSingleUse ==
    /\ [](\A i \in Inst :
            gateAtRun[i] = "closed" =>
               /\ shutDown = "closed"
               /\ runPc[i] \notin { "wait", "returned" }
               /\ (supPc[i] = "gate" /\ crashed = "no") => ENABLED SupPassGate(i)
               /\ (runPc[i] = "close" /\ crashed = "no") => ENABLED RunClose(i))
    /\ [][ /\ shutDown = "closed" => shutDown' = "closed"
           /\ \A i \in Inst :
                 (gateAtRun[i] = "closed" /\ runPc[i] = "close") => runPc'[i] = "close"
           /\ (crashed # "close" /\ crashed' = "close") =>
                 \E i \in Inst : runPc[i] = "close" /\ shutDown = "closed" ]_vars

\* B's Run was called after A's Run had closed the gate and returned: B's
\* run() went through the gate and stopped B's server, and B's Run ended in
\* the panic of its close
C21_Witness ==
    /\ gateAtRun["A"] = "open" /\ runPc["A"] = "returned"
    /\ gateAtRun["B"] = "closed"
    /\ listener["B"] = "bound"
    /\ server["B"] = "stopped"
    /\ runPc["B"] = "close"
    /\ crashed = "close"

====
